---- MODULE Spec2Model ----
(***************************************************************************)
(* Model of the METS package checker (mets.py): the METSPackage object,    *)
(* its constructor and its completeness, fixity and orphan checks, over a  *)
(* small file system holding one candidate package; and of the batch run   *)
(* of the window application (interface.py) over the packages of a folder. *)
(*                                                                         *)
(* Encodings.                                                              *)
(*  - A path string is the sequence of its "/"-separated components; the   *)
(*    empty string is <<>>.  Entry names are clean relative paths.         *)
(*  - An attribute that may be absent from an object (hasattr) is a        *)
(*    sequence of length 0 (absent) or 1 (present).                        *)
(*  - The result of an xpath attribute query is the list lxml returns:     *)
(*    length 0 when the attribute is missing, else length 1.               *)
(*  - A hex digest string is a record [alg, data, upper]: the digest of    *)
(*    the byte sequence data under alg (hash functions are taken to be     *)
(*    collision free), written in lower case (upper = FALSE) or in upper   *)
(*    case.  hashlib always produces lower case.                           *)
(***************************************************************************)
EXTENDS Integers, Sequences, FiniteSets, TLC

\* ------------------------------------------------------------------ bounds
MaxRefs == 2          \* file-location elements in one manifest
MaxFiles == 2         \* entries of the container besides the first one
MaxOpenHandles == 2   \* archive handles a run may leave open
MaxPackages == 2      \* packages a batch run finds

\* --------------------------------------------------------- program constants
buffer_size == 65536

\* ------------------------------------------------------------ option values
None == <<>>
Some(x) == <<x>>
hasattr(a) == Len(a) > 0
Get(a) == a[1]

\* -------------------------------------------------------------------- paths
\* path.split(p)[0] for a relative path without trailing slash
SplitHead(p) == IF Len(p) = 0 THEN <<>> ELSE SubSeq(p, 1, Len(p) - 1)

\* last component of a path
Basename(p) == p[Len(p)]

\* an absolute path starts with "/": its first component is empty
IsAbs(p) == Len(p) > 0 /\ p[1] = ""

\* path.join(a, b): b alone when b is absolute, else a, a separator, then b;
\* nothing is normalised
PathJoin(a, b) == IF IsAbs(b) THEN b ELSE a \o b

\* length of the longest common prefix of two component lists
RECURSIVE CommonPrefix(_, _, _)
CommonPrefix(a, b, k) ==
    IF k < Len(a) /\ k < Len(b) /\ a[k + 1] = b[k + 1]
    THEN CommonPrefix(a, b, k + 1) ELSE k

\* path.relpath(p, start) for clean relative paths: one ".." for every
\* component of start past the common prefix, then the rest of p; "." when
\* nothing is left
Relpath(p, start) ==
    LET i == CommonPrefix(start, p, 0)
        rel == [n \in 1..(Len(start) - i) |-> ".."] \o SubSeq(p, i + 1, Len(p))
    IN IF rel = <<>> THEN <<".">> ELSE rel

\* membership of a value in a list (Python's "in" / "not in")
InList(x, l) == \E k \in 1..Len(l) : l[k] = x

\* re.search(pattern, filepath) for a literal pattern: the pattern occurs
\* somewhere inside the path, here as a run of whole components
Search(pattern, filepath) ==
    \E k \in 0..(Len(filepath) - Len(pattern)) :
        SubSeq(filepath, k + 1, k + Len(pattern)) = pattern

\* ------------------------------------------------------------------ hashing
\* hashlib.<alg>(): a fresh hash object
NewHash(alg) == [alg |-> alg, data |-> <<>>]

\* checksum.update(data)
HashUpdate(h, data) == [h EXCEPT !.data = h.data \o data]

\* checksum.hexdigest()
HexDigest(h) == [alg |-> h.alg, data |-> h.data, upper |-> FALSE]

\* the upper-case spelling of a digest string
Upper(d) == [d EXCEPT !.upper = TRUE]

RecognizedTypes == {"MD5", "SHA-1", "SHA-256", "SHA-384", "SHA-512"}

\* ---------------------------------------------------------------- variables
VARIABLES
    \* the file system and the call's arguments
    fs_kind,            \* what the package path is on disk
    fs_files,           \* the container's files in enumeration order
    cwd_dirs,           \* names that are directories in the working directory
    manifest_pattern,   \* the constructor's manifest_pattern argument
    \* the METSPackage object
    obj,                \* "new" (not constructed), "live", "dead" (__init__ raised)
    package_type,
    list_of_package_files,
    manifest_path,
    xml,
    list_of_referenced_files,
    missing_files,
    altered_files,
    unchecked_files,
    list_of_orphan_files,
    \* the running fixity call (is_unaltered or listAlteredFiles)
    pc,                 \* "idle", or the name of the running call
    idx,                \* position of the loop over the file-location elements
    checksum,           \* the local variable checksum (absent while unbound)
    handle,             \* the local zip_file / tar_file: "unbound", "open", "closed"
    hashed,             \* entries whose bytes the running call has read so far
    open_handles,       \* archive handles opened by fixity calls and not closed
    ret,                \* outcome of the last finished call
    \* history
    first,              \* outcome of the first run of each observed method
    \* the batch application (interface.py)
    app                 \* the window's inputs and the progress of launch_test

world == <<fs_kind, fs_files, cwd_dirs, manifest_pattern>>
fields == <<obj, package_type, list_of_package_files, manifest_path, xml,
            list_of_referenced_files, missing_files, altered_files,
            unchecked_files, list_of_orphan_files>>
locals == <<pc, idx, checksum, handle, hashed>>
vars == <<world, fields, locals, open_handles, ret, first, app>>

\* outcome of a call: the exception it raised ("" when it returned), and the
\* value it returned (b for a boolean, l and l2 for lists)
Returned(op, b, l, l2) == [op |-> op, exc |-> "", b |-> b, l |-> l, l2 |-> l2]
Raised(op, exc) == [op |-> op, exc |-> exc, b |-> FALSE, l |-> <<>>, l2 |-> <<>>]

\* the history keeps, for every method in its domain, the outcome of the
\* first run that finished on the object
Record ==
    first' = IF /\ ret'.op \in DOMAIN first
                /\ ret'.exc # "running"
                /\ ~hasattr(first[ret'.op])
             THEN [first EXCEPT ![ret'.op] = Some(ret')]
             ELSE first

\* ------------------------------------------------------------ the container
\* what a file that is not a manifest yields when parsed
NoDoc == [wf |-> "illformed", valid |-> FALSE, flocats |-> <<>>]

File(name, data, doc) == [name |-> name, data |-> data, doc |-> doc]

FileNamed(name) == CHOOSE f \in {fs_files[k] : k \in 1..Len(fs_files)} : f.name = name

\* the names of a list of files, in order
RECURSIVE Names(_)
Names(files) ==
    IF files = <<>> THEN <<>>
    ELSE <<Head(files).name>> \o Names(Tail(files))

\* os.walk of a directory package: a file is skipped when its bare name is a
\* directory of the current working directory (path.isdir(file))
RECURSIVE WalkNames(_)
WalkNames(files) ==
    IF files = <<>> THEN <<>>
    ELSE (IF Basename(Head(files).name) \in cwd_dirs
          THEN <<>> ELSE <<Head(files).name>>) \o WalkNames(Tail(files))

\* ------------------------------------------------------------- construction
\* __init__, lines 48-56: the package type, absent when no branch assigns it
InitPackageType ==
    CASE fs_kind = "zip" -> [exc |-> "", package_type |-> Some("zip")]
      [] fs_kind \in {"tar", "tar_compressed"} ->
            [exc |-> "", package_type |-> Some("tar")]
      [] fs_kind = "file_other" -> [exc |-> "", package_type |-> None]
      [] fs_kind = "directory" -> [exc |-> "", package_type |-> Some("directory")]
      [] OTHER -> [exc |-> "NotAContainerError", package_type |-> None]

\* listPackageFiles: reading self.package_type fails when it was never set;
\* tarfile.TarFile does not open a compressed archive
listPackageFiles(ptype) ==
    IF ~hasattr(ptype) THEN [exc |-> "AttributeError", files |-> <<>>]
    ELSE IF Get(ptype) = "directory" THEN [exc |-> "", files |-> WalkNames(fs_files)]
    ELSE IF Get(ptype) = "zip" THEN [exc |-> "", files |-> Names(fs_files)]
    ELSE IF fs_kind = "tar_compressed" THEN [exc |-> "ReadError", files |-> <<>>]
    ELSE [exc |-> "", files |-> Names(fs_files)]

\* the for loop of find_manifest without its "break": the last match wins
RECURSIVE FirstMatchNoBreak(_, _)
FirstMatchNoBreak(files, k) ==
    IF k > Len(files) THEN 0
    ELSE LET later == FirstMatchNoBreak(files, k + 1) IN
         IF later # 0 THEN later
         ELSE IF Search(manifest_pattern, files[k]) THEN k ELSE 0

\* the for loop of find_manifest: index of the first entry the pattern is
\* found in, 0 when the loop ends without a match
RECURSIVE FirstMatch(_, _)
FirstMatch(files, k) ==
    IF k > Len(files) THEN 0
    ELSE IF Search(manifest_pattern, files[k]) THEN k
    ELSE FirstMatch(files, k + 1)

\* the "except AttributeError" handler of find_manifest: building the message
\* of ManifestNotFoundError reads self.manifest_path
NotFoundHandler(mpath) ==
    IF hasattr(mpath) THEN "ManifestNotFoundError" ELSE "AttributeError"

\* find_manifest catching the parser's syntax error: the object is built
\* without a parsed document
find_manifestKeepsIllFormed(files) ==
    LET k == FirstMatch(files, 1) IN
    IF k = 0
    THEN [exc |-> NotFoundHandler(None), manifest_path |-> None, xml |-> None]
    ELSE LET doc == FileNamed(files[k]).doc IN
         CASE doc.wf = "oserror" ->
                [exc |-> "ManifestReadingError", manifest_path |-> Some(files[k]),
                 xml |-> None]
           [] doc.wf = "illformed" ->
                [exc |-> "", manifest_path |-> Some(files[k]), xml |-> None]
           [] OTHER ->
                [exc |-> "", manifest_path |-> Some(files[k]), xml |-> Some(doc)]

\* find_manifest after the listing.  With no match, "return
\* self.manifest_path" raises AttributeError, and the handler's message reads
\* self.manifest_path again, which raises AttributeError out of the handler.
\* A matched entry is parsed: OSError becomes ManifestReadingError, a syntax
\* error of the parser is caught by neither handler.
find_manifest(files) ==
    LET k == FirstMatch(files, 1) IN
    IF k = 0
    THEN [exc |-> NotFoundHandler(None), manifest_path |-> None, xml |-> None]
    ELSE LET doc == FileNamed(files[k]).doc IN
         CASE doc.wf = "oserror" ->
                [exc |-> "ManifestReadingError", manifest_path |-> Some(files[k]),
                 xml |-> None]
           [] doc.wf = "illformed" ->
                [exc |-> "XMLSyntaxError", manifest_path |-> Some(files[k]),
                 xml |-> None]
           [] OTHER ->
                [exc |-> "", manifest_path |-> Some(files[k]), xml |-> Some(doc)]

\* METSPackage(package, manifest_pattern)
Construct ==
    /\ obj = "new"
    /\ LET t == InitPackageType
           l == listPackageFiles(t.package_type)
           m == find_manifest(l.files)
           exc == IF t.exc # "" THEN t.exc
                  ELSE IF l.exc # "" THEN l.exc
                  ELSE m.exc
       IN /\ obj' = IF exc = "" THEN "live" ELSE "dead"
          /\ package_type' = t.package_type
          /\ list_of_package_files' = IF t.exc = "" /\ l.exc = ""
                                      THEN Some(l.files) ELSE None
          /\ manifest_path' = IF t.exc = "" /\ l.exc = "" THEN m.manifest_path ELSE None
          /\ xml' = IF t.exc = "" /\ l.exc = "" THEN m.xml ELSE None
          /\ ret' = IF exc = "" THEN Returned("__init__", TRUE, <<>>, <<>>)
                    ELSE Raised("__init__", exc)
    /\ UNCHANGED <<world, app, list_of_referenced_files, missing_files, altered_files,
                   unchecked_files, list_of_orphan_files, locals, open_handles>>
    /\ Record

\* has_wellformed_manifest
has_wellformed_manifest ==
    /\ obj = "live" /\ pc = "idle"
    /\ ret' = Returned("has_wellformed_manifest", hasattr(xml), <<>>, <<>>)
    /\ UNCHANGED <<world, app, fields, locals, open_handles>>
    /\ Record

\* has_valid_manifest: the verdict of the schema on the parsed document
has_valid_manifest ==
    /\ obj = "live" /\ pc = "idle"
    /\ ret' = Returned("has_valid_manifest",
                       IF hasattr(xml) THEN Get(xml).valid ELSE FALSE, <<>>, <<>>)
    /\ UNCHANGED <<world, app, fields, locals, open_handles>>
    /\ Record

\* ------------------------------------------------------------- completeness
\* the file-location elements of the parsed manifest, in document order
FLocats == Get(xml).flocats

\* listReferencedFiles: the href of every file-location element; "[0]" on
\* the empty result of the href query raises IndexError and leaves the list
\* filled so far
RECURSIVE ReferencedLoop(_, _, _)
ReferencedLoop(fl, k, acc) ==
    IF k > Len(fl) THEN [exc |-> "", list |-> acc]
    ELSE IF fl[k].href = <<>> THEN [exc |-> "IndexError", list |-> acc]
    ELSE ReferencedLoop(fl, k + 1, Append(acc, fl[k].href[1]))

listReferencedFiles ==
    IF hasattr(xml) THEN ReferencedLoop(FLocats, 1, <<>>)
    ELSE [exc |-> "", list |-> <<>>]

\* "if not hasattr(self, 'list_of_referenced_files'): self.listReferencedFiles()"
ReferencedMemo ==
    IF hasattr(list_of_referenced_files)
    THEN [exc |-> "", list |-> Get(list_of_referenced_files)]
    ELSE listReferencedFiles

\* path.join(path.split(self.manifest_path)[0], file)
Resolve(file) == PathJoin(SplitHead(Get(manifest_path)), file)

\* is_complete with "return True" inside the loop: True at the first
\* reference that is an entry
RECURSIVE CompleteLoopFirstPresent(_, _)
CompleteLoopFirstPresent(refs, k) ==
    IF k > Len(refs) THEN TRUE
    ELSE IF ~InList(Resolve(refs[k]), Get(list_of_package_files)) THEN FALSE
    ELSE TRUE

\* the loop of is_complete: False at the first reference that is not an entry
RECURSIVE CompleteLoop(_, _)
CompleteLoop(refs, k) ==
    IF k > Len(refs) THEN TRUE
    ELSE IF ~InList(Resolve(refs[k]), Get(list_of_package_files)) THEN FALSE
    ELSE CompleteLoop(refs, k + 1)

\* is_complete
is_complete ==
    /\ obj = "live" /\ pc = "idle"
    /\ IF hasattr(xml)
       THEN LET r == ReferencedMemo IN
            /\ list_of_referenced_files' = Some(r.list)
            /\ ret' = IF r.exc # "" THEN Raised("is_complete", r.exc)
                      ELSE Returned("is_complete", CompleteLoop(r.list, 1), <<>>, <<>>)
       ELSE /\ ret' = Returned("is_complete", FALSE, <<>>, <<>>)
            /\ UNCHANGED list_of_referenced_files
    /\ UNCHANGED <<world, app, obj, package_type, list_of_package_files, manifest_path,
                   xml, missing_files, altered_files, unchecked_files,
                   list_of_orphan_files, locals, open_handles>>
    /\ Record

\* listMissingFiles appending the resolved path instead of the declared one
RECURSIVE MissingLoopResolved(_, _, _)
MissingLoopResolved(refs, k, acc) ==
    IF k > Len(refs) THEN acc
    ELSE IF ~InList(Resolve(refs[k]), Get(list_of_package_files))
         THEN MissingLoopResolved(refs, k + 1, Append(acc, Resolve(refs[k])))
         ELSE MissingLoopResolved(refs, k + 1, acc)

\* the loop of listMissingFiles: the declared path of every reference that is
\* not an entry
RECURSIVE MissingLoop(_, _, _)
MissingLoop(refs, k, acc) ==
    IF k > Len(refs) THEN acc
    ELSE IF ~InList(Resolve(refs[k]), Get(list_of_package_files))
         THEN MissingLoop(refs, k + 1, Append(acc, refs[k]))
         ELSE MissingLoop(refs, k + 1, acc)

\* listMissingFiles
listMissingFiles ==
    /\ obj = "live" /\ pc = "idle"
    /\ LET r == ReferencedMemo IN
       /\ list_of_referenced_files' = Some(r.list)
       /\ IF r.exc # ""
          THEN /\ missing_files' = Some(<<>>)
               /\ ret' = Raised("listMissingFiles", r.exc)
          ELSE LET m == MissingLoop(r.list, 1, <<>>) IN
               /\ missing_files' = Some(m)
               /\ ret' = Returned("listMissingFiles", FALSE, m, <<>>)
    /\ UNCHANGED <<world, app, obj, package_type, list_of_package_files, manifest_path,
                   xml, altered_files, unchecked_files, list_of_orphan_files,
                   locals, open_handles>>
    /\ Record

\* ------------------------------------------------------------------- fixity
\* the read loop: chunks of buffer_size bytes go into the hash object until a
\* read returns nothing
RECURSIVE ReadInto(_, _)
ReadInto(h, data) ==
    IF data = <<>> THEN h
    ELSE LET n == IF Len(data) < buffer_size THEN Len(data) ELSE buffer_size IN
         ReadInto(HashUpdate(h, SubSeq(data, 1, n)), SubSeq(data, n + 1, Len(data)))

\* the if/elif chain on CHECKSUMTYPE: a recognised type binds checksum to a
\* fresh hash object, any other type leaves the variable as it was
UnalteredChain(type, cs) ==
    IF type = "MD5" THEN Some(NewHash("MD5"))
    ELSE IF type = "SHA-1" THEN Some(NewHash("SHA-1"))
    ELSE IF type = "SHA-256" THEN Some(NewHash("SHA-256"))
    ELSE IF type = "SHA-384" THEN Some(NewHash("SHA-384"))
    ELSE IF type = "SHA-512" THEN Some(NewHash("SHA-512"))
    ELSE cs

\* is_unaltered passing over a reference without checksum attributes instead
\* of returning False
UnalteredVisitSkipsUnchecked(f, cs) ==
    IF f.href = <<>> THEN [kind |-> "IndexError", checksum |-> cs, read |-> <<>>]
    ELSE LET target == Resolve(f.href[1]) IN
    IF ~InList(target, Get(list_of_package_files))
    THEN [kind |-> "absent", checksum |-> cs, read |-> <<>>]
    ELSE IF f.CHECKSUM # <<>> /\ f.CHECKSUMTYPE # <<>>
    THEN LET c1 == UnalteredChain(f.CHECKSUMTYPE[1], cs) IN
         IF ~hasattr(c1)
         THEN [kind |-> "UnboundLocalError", checksum |-> c1, read |-> <<target>>]
         ELSE LET c2 == ReadInto(Get(c1), FileNamed(target).data) IN
              [kind |-> IF HexDigest(c2) # f.CHECKSUM[1] THEN "mismatch" ELSE "match",
               checksum |-> Some(c2), read |-> <<target>>]
    ELSE [kind |-> "absent", checksum |-> cs, read |-> <<>>]

\* one pass of the loop body of is_unaltered over file-location element f,
\* entered with the local checksum cs: what happens (kind), the local
\* checksum afterwards, and the entries whose bytes were read
UnalteredVisit(f, cs) ==
    IF f.href = <<>> THEN [kind |-> "IndexError", checksum |-> cs, read |-> <<>>]
    ELSE LET target == Resolve(f.href[1]) IN
    IF ~InList(target, Get(list_of_package_files))
    THEN [kind |-> "absent", checksum |-> cs, read |-> <<>>]
    ELSE IF f.CHECKSUM # <<>> /\ f.CHECKSUMTYPE # <<>>
    THEN LET c1 == UnalteredChain(f.CHECKSUMTYPE[1], cs) IN
         IF ~hasattr(c1)
         THEN [kind |-> "UnboundLocalError", checksum |-> c1, read |-> <<target>>]
         ELSE LET c2 == ReadInto(Get(c1), FileNamed(target).data) IN
              [kind |-> IF HexDigest(c2) # f.CHECKSUM[1] THEN "mismatch" ELSE "match",
               checksum |-> Some(c2), read |-> <<target>>]
    ELSE [kind |-> "nochecksum", checksum |-> cs, read |-> <<>>]

\* a fixity call that has been entered and has not finished
Running(op) == [op |-> op, exc |-> "running", b |-> FALSE, l |-> <<>>, l2 |-> <<>>]

IsArchive == hasattr(package_type) /\ Get(package_type) \in {"zip", "tar"}

\* entry of a fixity call on a parsed manifest: the archive is opened
EnterLoop(op) ==
    /\ ~IsArchive \/ open_handles < MaxOpenHandles
    /\ pc' = op
    /\ idx' = 1
    /\ checksum' = None
    /\ hashed' = <<>>
    /\ handle' = IF IsArchive THEN "open" ELSE "unbound"
    /\ open_handles' = IF IsArchive THEN open_handles + 1 ELSE open_handles
    /\ ret' = Running(op)

\* exit of a fixity call with outcome r; close tells whether the exit path
\* runs zip_file.close() / tar_file.close()
LeaveLoop(r, close) ==
    /\ pc' = "idle"
    /\ idx' = 0
    /\ checksum' = None
    /\ handle' = "unbound"
    /\ open_handles' = IF close /\ handle = "open" THEN open_handles - 1
                       ELSE open_handles
    /\ ret' = r

\* is_unaltered, lines 191-195 and 267-268
is_unaltered_call ==
    /\ obj = "live" /\ pc = "idle"
    /\ IF hasattr(xml)
       THEN EnterLoop("is_unaltered")
       ELSE /\ ret' = Returned("is_unaltered", FALSE, <<>>, <<>>)
            /\ UNCHANGED <<locals, open_handles>>
    /\ UNCHANGED <<world, app, fields>>
    /\ Record

\* is_unaltered, lines 197-266: one iteration of the loop, or the code after it
is_unaltered_step ==
    /\ pc = "is_unaltered"
    /\ IF idx > Len(FLocats)
       THEN /\ LeaveLoop(Returned("is_unaltered", TRUE, <<>>, <<>>), TRUE)
            /\ UNCHANGED hashed
       ELSE LET v == UnalteredVisit(FLocats[idx], checksum) IN
            /\ hashed' = hashed \o v.read
            /\ CASE v.kind \in {"IndexError", "UnboundLocalError"} ->
                      LeaveLoop(Raised("is_unaltered", v.kind), FALSE)
                 [] v.kind \in {"mismatch", "nochecksum"} ->
                      LeaveLoop(Returned("is_unaltered", FALSE, <<>>, <<>>), TRUE)
                 [] OTHER ->
                      /\ idx' = idx + 1
                      /\ checksum' = v.checksum
                      /\ UNCHANGED <<pc, handle, open_handles, ret>>
    /\ UNCHANGED <<world, app, fields>>
    /\ Record

\* the if/elif chain on CHECKSUMTYPE in listAlteredFiles
AlteredChain(type, cs) ==
    IF type = "MD5" THEN Some(NewHash("MD5"))
    ELSE IF type = "SHA-1" THEN Some(NewHash("SHA-1"))
    ELSE IF type = "SHA-256" THEN Some(NewHash("SHA-256"))
    ELSE IF type = "SHA-384" THEN Some(NewHash("SHA-384"))
    ELSE IF type = "SHA-512" THEN Some(NewHash("SHA-512"))
    ELSE cs

\* listAlteredFiles without the presence test for references that carry no
\* checksum attributes: an absent one is reported as unchecked
AlteredVisitAbsentUnchecked(f, cs) ==
    IF f.href = <<>> THEN [kind |-> "IndexError", checksum |-> cs, read |-> <<>>]
    ELSE LET target == Resolve(f.href[1]) IN
    IF ~InList(target, Get(list_of_package_files)) /\ f.CHECKSUM # <<>>
    THEN [kind |-> "absent", checksum |-> cs, read |-> <<>>]
    ELSE IF f.CHECKSUM # <<>> /\ f.CHECKSUMTYPE # <<>>
    THEN LET c1 == AlteredChain(f.CHECKSUMTYPE[1], cs) IN
         IF ~hasattr(c1)
         THEN [kind |-> "UnboundLocalError", checksum |-> c1, read |-> <<target>>]
         ELSE LET c2 == ReadInto(Get(c1), FileNamed(target).data) IN
              [kind |-> IF HexDigest(c2) # f.CHECKSUM[1] THEN "mismatch" ELSE "match",
               checksum |-> Some(c2), read |-> <<target>>]
    ELSE [kind |-> "nochecksum", checksum |-> cs, read |-> <<>>]

\* listAlteredFiles comparing the digests without regard to case
AlteredVisitIgnoreCase(f, cs) ==
    IF f.href = <<>> THEN [kind |-> "IndexError", checksum |-> cs, read |-> <<>>]
    ELSE LET target == Resolve(f.href[1]) IN
    IF ~InList(target, Get(list_of_package_files))
    THEN [kind |-> "absent", checksum |-> cs, read |-> <<>>]
    ELSE IF f.CHECKSUM # <<>> /\ f.CHECKSUMTYPE # <<>>
    THEN LET c1 == AlteredChain(f.CHECKSUMTYPE[1], cs) IN
         IF ~hasattr(c1)
         THEN [kind |-> "UnboundLocalError", checksum |-> c1, read |-> <<target>>]
         ELSE LET c2 == ReadInto(Get(c1), FileNamed(target).data) IN
              [kind |-> IF Upper(HexDigest(c2)) # Upper(f.CHECKSUM[1])
                        THEN "mismatch" ELSE "match",
               checksum |-> Some(c2), read |-> <<target>>]
    ELSE [kind |-> "nochecksum", checksum |-> cs, read |-> <<>>]

\* listAlteredFiles taking MD5 when CHECKSUM is there and CHECKSUMTYPE is not
AlteredVisitDefaultType(f, cs) ==
    IF f.href = <<>> THEN [kind |-> "IndexError", checksum |-> cs, read |-> <<>>]
    ELSE LET target == Resolve(f.href[1]) IN
    IF ~InList(target, Get(list_of_package_files))
    THEN [kind |-> "absent", checksum |-> cs, read |-> <<>>]
    ELSE IF f.CHECKSUM # <<>>
    THEN LET c1 == AlteredChain(IF f.CHECKSUMTYPE = <<>> THEN "MD5"
                                ELSE f.CHECKSUMTYPE[1], cs) IN
         IF ~hasattr(c1)
         THEN [kind |-> "UnboundLocalError", checksum |-> c1, read |-> <<target>>]
         ELSE LET c2 == ReadInto(Get(c1), FileNamed(target).data) IN
              [kind |-> IF HexDigest(c2) # f.CHECKSUM[1] THEN "mismatch" ELSE "match",
               checksum |-> Some(c2), read |-> <<target>>]
    ELSE [kind |-> "nochecksum", checksum |-> cs, read |-> <<>>]

\* one pass of the loop body of listAlteredFiles over element f
AlteredVisit(f, cs) ==
    IF f.href = <<>> THEN [kind |-> "IndexError", checksum |-> cs, read |-> <<>>]
    ELSE LET target == Resolve(f.href[1]) IN
    IF ~InList(target, Get(list_of_package_files))
    THEN [kind |-> "absent", checksum |-> cs, read |-> <<>>]
    ELSE IF f.CHECKSUM # <<>> /\ f.CHECKSUMTYPE # <<>>
    THEN LET c1 == AlteredChain(f.CHECKSUMTYPE[1], cs) IN
         IF ~hasattr(c1)
         THEN [kind |-> "UnboundLocalError", checksum |-> c1, read |-> <<target>>]
         ELSE LET c2 == ReadInto(Get(c1), FileNamed(target).data) IN
              [kind |-> IF HexDigest(c2) # f.CHECKSUM[1] THEN "mismatch" ELSE "match",
               checksum |-> Some(c2), read |-> <<target>>]
    ELSE [kind |-> "nochecksum", checksum |-> cs, read |-> <<>>]

\* listAlteredFiles, lines 273-279; without a parsed manifest the code goes
\* straight to lines 338-342, where zip_file / tar_file was never bound
listAlteredFiles_call ==
    /\ obj = "live" /\ pc = "idle"
    /\ unchecked_files' = Some(<<>>)
    /\ altered_files' = Some(<<>>)
    /\ IF hasattr(xml)
       THEN EnterLoop("listAlteredFiles")
       ELSE /\ ret' = IF IsArchive THEN Raised("listAlteredFiles", "UnboundLocalError")
                      ELSE Returned("listAlteredFiles", FALSE, <<>>, <<>>)
            /\ UNCHANGED <<locals, open_handles>>
    /\ UNCHANGED <<world, app, obj, package_type, list_of_package_files, manifest_path,
                   xml, list_of_referenced_files, missing_files,
                   list_of_orphan_files>>
    /\ Record

\* listAlteredFiles putting a reference whose digest differs on the unchecked
\* list as well as on the altered list
listAlteredFiles_stepBothLists ==
    /\ pc = "listAlteredFiles"
    /\ IF idx > Len(FLocats)
       THEN /\ LeaveLoop(Returned("listAlteredFiles", FALSE, Get(altered_files),
                                  Get(unchecked_files)), TRUE)
            /\ UNCHANGED <<hashed, altered_files, unchecked_files>>
       ELSE LET f == FLocats[idx]
                v == AlteredVisit(f, checksum) IN
            /\ hashed' = hashed \o v.read
            /\ altered_files' = IF v.kind = "mismatch"
                                THEN Some(Append(Get(altered_files), Resolve(f.href[1])))
                                ELSE altered_files
            /\ unchecked_files' = IF v.kind \in {"nochecksum", "mismatch"}
                                  THEN Some(Append(Get(unchecked_files), Resolve(f.href[1])))
                                  ELSE unchecked_files
            /\ IF v.kind \in {"IndexError", "UnboundLocalError"}
               THEN LeaveLoop(Raised("listAlteredFiles", v.kind), FALSE)
               ELSE /\ idx' = idx + 1
                    /\ checksum' = v.checksum
                    /\ UNCHANGED <<pc, handle, open_handles, ret>>
    /\ UNCHANGED <<world, app, obj, package_type, list_of_package_files, manifest_path,
                   xml, list_of_referenced_files, missing_files,
                   list_of_orphan_files>>
    /\ Record

\* listAlteredFiles, lines 280-342: one iteration of the loop, or the code
\* after it
listAlteredFiles_step ==
    /\ pc = "listAlteredFiles"
    /\ IF idx > Len(FLocats)
       THEN /\ LeaveLoop(Returned("listAlteredFiles", FALSE, Get(altered_files),
                                  Get(unchecked_files)), TRUE)
            /\ UNCHANGED <<hashed, altered_files, unchecked_files>>
       ELSE LET f == FLocats[idx]
                v == AlteredVisit(f, checksum) IN
            /\ hashed' = hashed \o v.read
            /\ altered_files' = IF v.kind = "mismatch"
                                THEN Some(Append(Get(altered_files), Resolve(f.href[1])))
                                ELSE altered_files
            /\ unchecked_files' = IF v.kind = "nochecksum"
                                  THEN Some(Append(Get(unchecked_files), Resolve(f.href[1])))
                                  ELSE unchecked_files
            /\ IF v.kind \in {"IndexError", "UnboundLocalError"}
               THEN LeaveLoop(Raised("listAlteredFiles", v.kind), FALSE)
               ELSE /\ idx' = idx + 1
                    /\ checksum' = v.checksum
                    /\ UNCHANGED <<pc, handle, open_handles, ret>>
    /\ UNCHANGED <<world, app, obj, package_type, list_of_package_files, manifest_path,
                   xml, list_of_referenced_files, missing_files,
                   list_of_orphan_files>>
    /\ Record

\* ------------------------------------------------------------------ orphans
\* the test of the orphan loops: the entry's path relative to the manifest's
\* directory is not a declared path, and the entry is not the manifest
IsOrphan(file, refs) ==
    /\ ~InList(Relpath(file, SplitHead(Get(manifest_path))), refs)
    /\ file # Get(manifest_path)

\* the loop of has_no_orphan_files: False at the first orphan entry
RECURSIVE NoOrphanLoop(_, _, _)
NoOrphanLoop(files, refs, k) ==
    IF k > Len(files) THEN TRUE
    ELSE IF IsOrphan(files[k], refs) THEN FALSE
    ELSE NoOrphanLoop(files, refs, k + 1)

\* has_no_orphan_files
has_no_orphan_files ==
    /\ obj = "live" /\ pc = "idle"
    /\ IF hasattr(xml)
       THEN LET r == ReferencedMemo IN
            /\ list_of_referenced_files' = Some(r.list)
            /\ ret' = IF r.exc # "" THEN Raised("has_no_orphan_files", r.exc)
                      ELSE Returned("has_no_orphan_files",
                                    NoOrphanLoop(Get(list_of_package_files), r.list, 1),
                                    <<>>, <<>>)
       ELSE /\ ret' = Returned("has_no_orphan_files", FALSE, <<>>, <<>>)
            /\ UNCHANGED list_of_referenced_files
    /\ UNCHANGED <<world, app, obj, package_type, list_of_package_files, manifest_path,
                   xml, missing_files, altered_files, unchecked_files,
                   list_of_orphan_files, locals, open_handles>>
    /\ Record

\* listOrphanFiles without "and file != self.manifest_path"
RECURSIVE OrphanLoopWithManifest(_, _, _, _)
OrphanLoopWithManifest(files, refs, k, acc) ==
    IF k > Len(files) THEN acc
    ELSE IF ~InList(Relpath(files[k], SplitHead(Get(manifest_path))), refs)
         THEN OrphanLoopWithManifest(files, refs, k + 1, Append(acc, files[k]))
         ELSE OrphanLoopWithManifest(files, refs, k + 1, acc)

\* the loop of listOrphanFiles: every orphan entry, in the order of the listing
RECURSIVE OrphanLoop(_, _, _, _)
OrphanLoop(files, refs, k, acc) ==
    IF k > Len(files) THEN acc
    ELSE IF IsOrphan(files[k], refs)
         THEN OrphanLoop(files, refs, k + 1, Append(acc, files[k]))
         ELSE OrphanLoop(files, refs, k + 1, acc)

\* listOrphanFiles
listOrphanFiles ==
    /\ obj = "live" /\ pc = "idle"
    /\ IF hasattr(xml)
       THEN LET r == ReferencedMemo IN
            /\ list_of_referenced_files' = Some(r.list)
            /\ IF r.exc # ""
               THEN /\ list_of_orphan_files' = Some(<<>>)
                    /\ ret' = Raised("listOrphanFiles", r.exc)
               ELSE LET o == OrphanLoop(Get(list_of_package_files), r.list, 1, <<>>) IN
                    /\ list_of_orphan_files' = Some(o)
                    /\ ret' = Returned("listOrphanFiles", FALSE, o, <<>>)
       ELSE /\ list_of_orphan_files' = Some(<<>>)
            /\ ret' = Returned("listOrphanFiles", FALSE, <<>>, <<>>)
            /\ UNCHANGED list_of_referenced_files
    /\ UNCHANGED <<world, app, obj, package_type, list_of_package_files, manifest_path,
                   xml, missing_files, altered_files, unchecked_files, locals,
                   open_handles>>
    /\ Record

\* -------------------------------------------------------------------- batch
\* mets.METSPackage(package, pattern, package_type=...): __init__ takes
\* (self, package, manifest_pattern) only, so the call raises TypeError before
\* the constructor's body runs, whatever the package is
KeywordCall(fate) == "TypeError"

\* the loops of find_information_packages over the paths glob yields: one
\* METSPackage call per path, with nothing around it that catches
RECURSIVE FindLoop(_, _, _)
FindLoop(fates, k, pkgs) ==
    IF k > Len(fates) THEN [exc |-> "", failed |-> 0, packages |-> pkgs]
    ELSE LET e == KeywordCall(fates[k]) IN
         IF e # "" THEN [exc |-> e, failed |-> k, packages |-> pkgs]
         ELSE FindLoop(fates, k + 1, Append(pkgs, k))

\* find_information_packages: an empty dict for any other package type
find_information_packages(selected, fates) ==
    IF selected \in {"directory_package_type", "container_package_type"}
    THEN FindLoop(fates, 1, <<>>)
    ELSE [exc |-> "", failed |-> 0, packages |-> <<>>]

\* the exception one pass of the loop of launch_test lets through: a package
\* whose checks raise does so at the first selected check that reads the
\* references; has_wellformed_manifest and has_valid_manifest do not raise
EvaluateOne(fate, actions) ==
    IF fate = "check_raises"
       /\ actions \cap {"completeness", "fixity", "orphanness"} # {}
    THEN "IndexError" ELSE ""

\* the loop of launch_test over list_of_packages: the verdicts of a package
\* are recorded when its pass ends, and nothing catches inside the loop
RECURSIVE EvaluateLoop(_, _, _, _, _)
EvaluateLoop(pkgs, fates, actions, k, rows) ==
    IF k > Len(pkgs) THEN [exc |-> "", failed |-> 0, rows |-> rows]
    ELSE LET e == EvaluateOne(fates[pkgs[k]], actions) IN
         IF e # "" THEN [exc |-> e, failed |-> pkgs[k], rows |-> rows]
         ELSE EvaluateLoop(pkgs, fates, actions, k + 1, Append(rows, pkgs[k]))

\* launch_test: the three guards, the detection of the packages, the loop
\* over them, then build_report, which makes one row per evaluated package
launch_test ==
    /\ app.phase = "ready"
    /\ LET found == find_information_packages(app.selected_package_type, app.fates)
           done == EvaluateLoop(found.packages, app.fates, app.actions, 1, <<>>)
           out == IF app.directory = <<>>
                  THEN [exc |-> "UndefinedDirectory", failed |-> 0, rows |-> <<>>]
                  ELSE IF app.mets_pattern = <<>>
                  THEN [exc |-> "UndefinedMETSPattern", failed |-> 0, rows |-> <<>>]
                  ELSE IF app.actions = {}
                  THEN [exc |-> "UndefinedAction", failed |-> 0, rows |-> <<>>]
                  ELSE IF found.exc # ""
                  THEN [exc |-> found.exc, failed |-> found.failed, rows |-> <<>>]
                  ELSE done
       IN app' = [app EXCEPT !.phase = IF out.exc = "" THEN "ended" ELSE "raised",
                             !.exc = out.exc,
                             !.failed = out.failed,
                             !.rows = IF out.exc = "" THEN out.rows ELSE <<>>]
    /\ UNCHANGED <<world, fields, locals, open_handles, ret, first>>

\* report_callback_exception: Tk hands it the exception launch_test raised;
\* it shows the message and nothing else
report_callback_exception ==
    /\ app.phase = "raised"
    /\ app' = [app EXCEPT !.phase = "error_shown"]
    /\ UNCHANGED <<world, fields, locals, open_handles, ret, first>>

NextBatch ==
    \/ launch_test
    \/ report_callback_exception

\* ------------------------------------------------------------ specification
Next ==
    \/ Construct
    \/ has_wellformed_manifest
    \/ has_valid_manifest
    \/ is_complete
    \/ listMissingFiles
    \/ is_unaltered_call
    \/ is_unaltered_step
    \/ listAlteredFiles_call
    \/ listAlteredFiles_step
    \/ has_no_orphan_files
    \/ listOrphanFiles

\* ----------------------------------------------------------- initial states
\* names used in the packages
MetsXml == <<"mets.xml">>
SubMetsXml == <<"sub", "mets.xml">>
ATxt == <<"a.txt">>
SubATxt == <<"sub", "a.txt">>
CTxt == <<"c.txt">>

\* a file-location element: the results of the queries @xlink:href,
\* ../@CHECKSUM and ../@CHECKSUMTYPE
FLocat(href, sum, type) == [href |-> href, CHECKSUM |-> sum, CHECKSUMTYPE |-> type]

\* a manifest that parses, with its file-location elements
Doc(flocats) == [wf |-> "ok", valid |-> TRUE, flocats |-> flocats]

\* sequences over S of length at most n
SeqsUpTo(S, n) == UNION {[1..k -> S] : k \in 0..n}

\* no object yet
NoObject ==
    /\ obj = "new"
    /\ package_type = None
    /\ list_of_package_files = None
    /\ manifest_path = None
    /\ xml = None
    /\ list_of_referenced_files = None
    /\ missing_files = None
    /\ altered_files = None
    /\ unchecked_files = None
    /\ list_of_orphan_files = None
    /\ pc = "idle"
    /\ idx = 0
    /\ checksum = None
    /\ handle = "unbound"
    /\ hashed = <<>>
    /\ open_handles = 0
    /\ ret = Returned("", FALSE, <<>>, <<>>)

\* no batch window
NoApp == [directory |-> <<>>, mets_pattern |-> <<>>, actions |-> {},
          selected_package_type |-> "", fates |-> <<>>, phase |-> "off",
          exc |-> "", failed |-> 0, rows |-> <<>>]

\* the methods whose runs the history observes
Checks == {"is_complete", "listMissingFiles", "is_unaltered", "listAlteredFiles",
           "has_no_orphan_files", "listOrphanFiles"}

\* Packages of every kind, with the manifest at the root or in a
\* subdirectory, and references that carry no checksum attributes.  Every
\* file-location element has an href, as a reference has in the manifests the
\* checker is written for.  Only the first entry the pattern matches is ever
\* parsed, so the manifest varies there and any later match holds DecoyDoc,
\* which differs from every manifest of GenDocs.
GenKinds == {"absent", "file_other", "zip", "tar", "tar_compressed", "directory"}
GenNames == {MetsXml, SubMetsXml, ATxt, SubATxt}
GenFLocats == {FLocat(<<h>>, <<>>, <<>>) : h \in {ATxt, CTxt}}
GenDocs == {Doc(fl) : fl \in SeqsUpTo(GenFLocats, MaxRefs)}
              \cup {[wf |-> w, valid |-> FALSE, flocats |-> <<>>] :
                        w \in {"illformed", "oserror"}}
DecoyDoc == Doc(<<FLocat(<<SubATxt>>, <<>>, <<>>)>>)
GenNameSeqs ==
    {n \in SeqsUpTo(GenNames, 1 + MaxFiles) :
        \A j, k \in 1..Len(n) : j # k => n[j] # n[k]}
GenListing(n, d) ==
    [k \in 1..Len(n) |->
        File(n[k], <<1>>,
             IF ~Search(MetsXml, n[k]) THEN NoDoc
             ELSE IF \A j \in 1..(k - 1) : ~Search(MetsXml, n[j]) THEN d
             ELSE DecoyDoc)]
GenListings == {GenListing(n, d) : n \in GenNameSeqs, d \in GenDocs}

Init ==
    /\ fs_kind \in GenKinds
    /\ fs_files \in IF fs_kind \in {"absent", "file_other"} THEN {<<>>} ELSE GenListings
    /\ cwd_dirs \in IF fs_kind = "directory" THEN {{}, {"a.txt"}} ELSE {{}}
    /\ manifest_pattern = MetsXml
    /\ NoObject
    /\ first = <<>>
    /\ app = NoApp

Spec == Init /\ [][Next]_vars

\* Packages with the manifest at the root and one data file, and references
\* with every combination of checksum attributes the fixity check tells apart.
D1 == HexDigest(ReadInto(NewHash("MD5"), <<1>>))
D256 == HexDigest(ReadInto(NewHash("SHA-256"), <<1>>))
D11 == HexDigest(ReadInto(NewHash("MD5"), <<1, 1>>))
FixFLocats ==
    { FLocat(<<ATxt>>, <<D1>>, <<"MD5">>),
      FLocat(<<ATxt>>, <<Upper(D1)>>, <<"MD5">>),
      FLocat(<<ATxt>>, <<D256>>, <<"SHA-256">>),
      FLocat(<<ATxt>>, <<D1>>, <<"CRC32">>),
      FLocat(<<ATxt>>, <<D11>>, <<"CRC32">>),
      FLocat(<<ATxt>>, <<>>, <<>>),
      FLocat(<<ATxt>>, <<>>, <<"MD5">>),
      FLocat(<<ATxt>>, <<D1>>, <<>>),
      FLocat(<<CTxt>>, <<D1>>, <<"MD5">>),
      FLocat(<<CTxt>>, <<>>, <<>>) }
FixDocs == {Doc(fl) : fl \in SeqsUpTo(FixFLocats, MaxRefs)}

InitFixity ==
    /\ fs_kind \in {"directory", "zip", "tar"}
    /\ fs_files \in {<<File(MetsXml, <<0>>, d), File(ATxt, a, NoDoc)>> :
                        d \in FixDocs, a \in {<<1>>, <<2>>}}
    /\ cwd_dirs = {}
    /\ manifest_pattern = MetsXml
    /\ NoObject
    /\ first = <<>>
    /\ app = NoApp

SpecFixity == InitFixity /\ [][Next]_vars

\* Packages whose manifest may hold a file-location element without
\* xlink:href, an attribute the METS schema does not require; the history
\* observes the six checks.
HistFLocats ==
    { FLocat(<<ATxt>>, <<>>, <<>>),
      FLocat(<<ATxt>>, <<D1>>, <<"MD5">>),
      FLocat(<<CTxt>>, <<>>, <<>>),
      FLocat(<<>>, <<>>, <<>>) }
HistDocs == {Doc(fl) : fl \in SeqsUpTo(HistFLocats, MaxRefs)}

InitHistory ==
    /\ fs_kind \in {"directory", "zip"}
    /\ fs_files \in {<<File(MetsXml, <<0>>, d), File(ATxt, <<1>>, NoDoc)>> :
                        d \in HistDocs}
    /\ cwd_dirs = {}
    /\ manifest_pattern = MetsXml
    /\ NoObject
    /\ first = [op \in Checks |-> None]
    /\ app = NoApp

SpecHistory == InitHistory /\ [][Next]_vars

\* An object that has its listing and its manifest path but no parsed
\* document, over each backend.  The constructor returns no such object;
\* the "if hasattr(self, 'xml')" tests of the methods are written for it.
InitNoManifest ==
    /\ fs_kind \in {"directory", "zip", "tar"}
    /\ fs_files \in {GenListing(n, NoDoc) :
                        n \in {m \in GenNameSeqs : Len(m) >= 1 /\ m[1] = MetsXml}}
    /\ cwd_dirs = {}
    /\ manifest_pattern = MetsXml
    /\ obj = "live"
    /\ package_type = Some(fs_kind)
    /\ list_of_package_files = Some(Names(fs_files))
    /\ manifest_path = Some(MetsXml)
    /\ xml = None
    /\ list_of_referenced_files = None
    /\ missing_files = None
    /\ altered_files = None
    /\ unchecked_files = None
    /\ list_of_orphan_files = None
    /\ pc = "idle"
    /\ idx = 0
    /\ checksum = None
    /\ handle = "unbound"
    /\ hashed = <<>>
    /\ open_handles = 0
    /\ ret = Returned("", FALSE, <<>>, <<>>)
    /\ first = <<>>
    /\ app = NoApp

\* the methods that can run on such an object: no loop of a fixity call is
\* ever entered
NextNoManifest ==
    \/ has_wellformed_manifest
    \/ has_valid_manifest
    \/ is_complete
    \/ listMissingFiles
    \/ is_unaltered_call
    \/ listAlteredFiles_call
    \/ has_no_orphan_files
    \/ listOrphanFiles

SpecNoManifest == InitNoManifest /\ [][NextNoManifest]_vars

\* Packages whose manifest, at the root or in a subdirectory, may declare a
\* file of the parent directory by a path that starts with "..".
UpATxt == <<"..", "a.txt">>
PathFLocats == {FLocat(<<h>>, <<>>, <<>>) : h \in {ATxt, UpATxt}}
PathDocs == {Doc(fl) : fl \in SeqsUpTo(PathFLocats, MaxRefs)}
PathNameSeqs ==
    {<<m>> \o n : m \in {MetsXml, SubMetsXml},
                  n \in {q \in SeqsUpTo({ATxt, SubATxt}, MaxFiles) :
                            \A j, k \in 1..Len(q) : j # k => q[j] # q[k]}}

InitPaths ==
    /\ fs_kind \in {"directory", "zip", "tar"}
    /\ fs_files \in {GenListing(n, d) : n \in PathNameSeqs, d \in PathDocs}
    /\ cwd_dirs = {}
    /\ manifest_pattern = MetsXml
    /\ NoObject
    /\ first = <<>>
    /\ app = NoApp

SpecPaths == InitPaths /\ [][Next]_vars

\* The window when the user presses the launch button: the folder and the
\* pattern are filled in or not, any of the four checks is ticked, and glob
\* yields up to MaxPackages paths.  A path's fate is what a two-argument
\* METSPackage call and the checks would do with it.
Fates == {"sound", "construct_raises", "check_raises"}
InitBatch ==
    /\ fs_kind = "absent"
    /\ fs_files = <<>>
    /\ cwd_dirs = {}
    /\ manifest_pattern = MetsXml
    /\ NoObject
    /\ first = <<>>
    /\ app \in [directory : {<<>>, <<"packages">>},
                mets_pattern : {<<>>, MetsXml},
                actions : SUBSET {"validate", "completeness", "fixity", "orphanness"},
                selected_package_type : {"directory_package_type",
                                         "container_package_type"},
                fates : SeqsUpTo(Fates, MaxPackages),
                phase : {"ready"},
                exc : {""},
                failed : {0},
                rows : {<<>>}]

SpecBatch == InitBatch /\ [][NextBatch]_vars

\* ------------------------------------------------------------------- claims
\* vocabulary of the claims, stated on the file system and on the object
Entries == {Get(list_of_package_files)[k] : k \in 1..Len(Get(list_of_package_files))}
ManifestDir == SubSeq(Get(manifest_path), 1, Len(Get(manifest_path)) - 1)
Declared(k) == FLocats[k].href[1]
Target(k) == ManifestDir \o Declared(k)
IsPresent(k) == Target(k) \in Entries
BytesOf(name) == (CHOOSE f \in {fs_files[j] : j \in 1..Len(fs_files)} : f.name = name).data
Matching == {k \in 1..Len(fs_files) : Search(manifest_pattern, fs_files[k].name)}
FirstMatching == CHOOSE k \in Matching : \A j \in Matching : k <= j
IsContainer == fs_kind \in {"directory", "zip", "tar"}
AtElement == pc \in {"is_unaltered", "listAlteredFiles"} /\ idx \in 1..Len(FLocats)

\* C1: constructing a package whose located manifest is not well-formed XML
\* raises nothing: the object exists and has no parsed document.
C1_IllFormedIsNotFatal ==
    (obj # "new" /\ IsContainer /\ Matching # {}
        /\ fs_files[FirstMatching].doc.wf = "illformed")
    => (obj = "live" /\ ret.exc = "" /\ ~hasattr(xml))

\* C2: constructing a package over a container none of whose entries matches
\* the pattern (an empty container included) fails with ManifestNotFoundError.
C2_NoMatchIsManifestNotFound ==
    (ret.op = "__init__" /\ IsContainer /\ Matching = {})
    => ret.exc = "ManifestNotFoundError"

\* C3: constructing a package from a path that is neither a directory nor a
\* ZIP or TAR file (no such path, or a regular file of another format) fails
\* with NotAContainerError.
C3_NotAContainer ==
    (ret.op = "__init__" /\ fs_kind \in {"absent", "file_other"})
    => ret.exc = "NotAContainerError"

\* element k carries both checksum attributes
HasBoth(k) == FLocats[k].CHECKSUM # <<>> /\ FLocats[k].CHECKSUMTYPE # <<>>
\* element k is a present reference with a digest and a recognised algorithm
IsCheckable(k) ==
    IsPresent(k) /\ HasBoth(k) /\ FLocats[k].CHECKSUMTYPE[1] \in RecognizedTypes
\* element k is a present reference with a digest and an unrecognised algorithm
IsUnrecognized(k) ==
    IsPresent(k) /\ HasBoth(k) /\ FLocats[k].CHECKSUMTYPE[1] \notin RecognizedTypes
\* the lower-case hex digest of the bytes of entry name under algorithm alg
ActualDigest(alg, name) == [alg |-> alg, data |-> BytesOf(name), upper |-> FALSE]
\* the n-th smallest element of a set of numbers
Nth(S, n) == CHOOSE k \in S : Cardinality({j \in S : j <= k}) = n

\* C4: a present reference with a CHECKSUM and a CHECKSUMTYPE outside the five
\* recognised names goes to unchecked and not to altered; neither fixity call
\* raises on it or feeds its bytes to a hash object.
C4_UnrecognizedTypeIsUnchecked ==
    [][(AtElement /\ IsUnrecognized(idx)) =>
          /\ ret'.exc \in {"", "running"}
          /\ pc' = pc => checksum' = checksum
          /\ pc = "listAlteredFiles" =>
                /\ unchecked_files' = Some(Append(Get(unchecked_files), Target(idx)))
                /\ altered_files' = altered_files]_vars

\* C5: is_complete returns True exactly when the manifest declares no
\* reference or every declared path, joined to the manifest's directory, is an
\* entry of the package.
C5_CompleteIffAllPresent ==
    (ret.op = "is_complete" /\ ret.exc = "" /\ hasattr(xml))
    => (ret.b <=> (Len(FLocats) = 0 \/ \A k \in 1..Len(FLocats) : IsPresent(k)))

C5_Witness ==
    /\ ret.op = "is_complete" /\ ret.exc = "" /\ ret.b
    /\ Len(FLocats) > 0
    /\ Get(manifest_path) = SubMetsXml

\* C6: listMissingFiles returns the declared paths of the references whose
\* resolved path is not an entry, one item per such reference, in manifest
\* order.
C6_MissingAreTheAbsentReferences ==
    (ret.op = "listMissingFiles" /\ ret.exc = "")
    => LET absent == {k \in 1..Len(FLocats) : ~IsPresent(k)} IN
       /\ Len(ret.l) = Cardinality(absent)
       /\ \A n \in 1..Len(ret.l) : ret.l[n] = Declared(Nth(absent, n))

C6_Witness ==
    /\ ret.op = "listMissingFiles" /\ ret.exc = ""
    /\ Get(manifest_path) = SubMetsXml
    /\ Len(ret.l) > 1 /\ ret.l[1] = ret.l[2]

\* C7: a reference whose resolved path is not an entry is listed as missing,
\* is never put in altered or unchecked, and a fixity call passes over it
\* without reading or hashing anything.
C7_AbsentOnlyInMissing ==
    /\ []((ret.op = "listMissingFiles" /\ ret.exc = "")
            => \A k \in 1..Len(FLocats) : ~IsPresent(k) => InList(Declared(k), ret.l))
    /\ []((obj = "live" /\ hasattr(altered_files))
            => \A k \in 1..Len(FLocats) : ~IsPresent(k) =>
                  /\ ~InList(Target(k), Get(altered_files))
                  /\ ~InList(Target(k), Get(unchecked_files)))
    /\ [][(AtElement /\ ~IsPresent(idx)) =>
            /\ pc' = pc /\ idx' = idx + 1
            /\ hashed' = hashed /\ checksum' = checksum
            /\ altered_files' = altered_files
            /\ unchecked_files' = unchecked_files]_vars

C7_Witness ==
    /\ pc = "listAlteredFiles" /\ idx = 2
    /\ ~IsPresent(1) /\ HasBoth(1)
    /\ hasattr(missing_files) /\ InList(Declared(1), Get(missing_files))

\* C8: a present reference with a digest and a recognised algorithm is put in
\* altered exactly when the lower-case hex digest of the entry's bytes under
\* that algorithm is not the declared string, and is never put in unchecked.
C8_AlteredIffDigestDiffers ==
    [][(pc = "listAlteredFiles" /\ idx \in 1..Len(FLocats) /\ IsCheckable(idx)) =>
          /\ altered_files' =
                IF ActualDigest(FLocats[idx].CHECKSUMTYPE[1], Target(idx))
                      # FLocats[idx].CHECKSUM[1]
                THEN Some(Append(Get(altered_files), Target(idx)))
                ELSE altered_files
          /\ unchecked_files' = unchecked_files]_vars

C8_Witness ==
    /\ pc = "listAlteredFiles" /\ idx = 2
    /\ FLocats[1] = FLocat(<<ATxt>>, <<Upper(D1)>>, <<"MD5">>)
    /\ BytesOf(ATxt) = <<1>>
    /\ Get(altered_files) = <<ATxt>>

\* C9: a present reference without CHECKSUM or without CHECKSUMTYPE is put in
\* unchecked and not in altered, whatever the entry holds.
C9_NoMetadataIsUnchecked ==
    [][(pc = "listAlteredFiles" /\ idx \in 1..Len(FLocats)
            /\ IsPresent(idx) /\ ~HasBoth(idx)) =>
          /\ unchecked_files' = Some(Append(Get(unchecked_files), Target(idx)))
          /\ altered_files' = altered_files]_vars

C9_Witness ==
    /\ pc = "listAlteredFiles" /\ idx = 2
    /\ FLocats[1] = FLocat(<<ATxt>>, <<D1>>, <<>>)
    /\ BytesOf(ATxt) = <<1>>
    /\ Get(unchecked_files) = <<ATxt>> /\ Get(altered_files) = <<>>

\* C10: when is_unaltered returns, its value is True exactly when the altered
\* and unchecked lists of listAlteredFiles on the same package are both empty.
C10_UnalteredAgreesWithLists ==
    (ret.op = "is_unaltered" /\ ret.exc = "" /\ hasattr(xml) /\ hasattr(altered_files))
    => (ret.b <=> (Get(altered_files) = <<>> /\ Get(unchecked_files) = <<>>))

C10_Witness ==
    /\ ret.op = "is_unaltered" /\ ret.exc = "" /\ ret.b
    /\ hasattr(altered_files)
    /\ Len(FLocats) = 2 /\ IsCheckable(1) /\ IsCheckable(2)

\* the paths the manifest declares
DeclaredPaths == {Declared(k) : k \in 1..Len(FLocats)}

\* the path that leads from directory d to entry e: out of as few directories
\* of d as possible, then down to e
RelativeTo(e, d) ==
    LET ups == {k \in 0..Len(d) :
                    /\ Len(d) - k <= Len(e)
                    /\ \A j \in 1..(Len(d) - k) : d[j] = e[j]}
        k == CHOOSE u \in ups : \A v \in ups : u <= v
    IN [n \in 1..k |-> ".."] \o SubSeq(e, Len(d) - k + 1, Len(e))

\* an entry that is not the manifest and that no reference declares
IsUndeclared(e) ==
    /\ e # Get(manifest_path)
    /\ RelativeTo(e, ManifestDir) \notin DeclaredPaths

\* C11: listOrphanFiles returns, in the order of the listing, exactly the
\* entries that are not the manifest and whose path relative to the
\* manifest's directory is not a declared path; has_no_orphan_files is True
\* exactly when there is no such entry.
C11_OrphansAreTheUndeclaredEntries ==
    /\ (ret.op = "listOrphanFiles" /\ ret.exc = "")
          => ret.l = SelectSeq(Get(list_of_package_files), IsUndeclared)
    /\ (ret.op = "has_no_orphan_files" /\ ret.exc = "")
          => (ret.b <=> \A e \in Entries : ~IsUndeclared(e))

\* an entry above the manifest's directory is reported although its name is
\* declared, and the manifest itself is not reported
C11_Witness ==
    /\ ret.op = "listOrphanFiles" /\ ret.exc = ""
    /\ manifest_path = Some(SubMetsXml)
    /\ ATxt \in DeclaredPaths
    /\ InList(ATxt, ret.l)
    /\ ~InList(SubMetsXml, ret.l)

\* positions of the listing the manifest pattern is found in
MatchingEntries ==
    {k \in 1..Len(Get(list_of_package_files)) :
        Search(manifest_pattern, Get(list_of_package_files)[k])}

\* the document held by the file of the given name
DocOf(name) == (CHOOSE f \in {fs_files[j] : j \in 1..Len(fs_files)} : f.name = name).doc

\* C12: of the entries the pattern is found in, the first of the listing is
\* the manifest whatever follows it, and the parsed document is the one that
\* entry holds; the choice depends on the listing and the pattern alone, so
\* constructing again over the same package gives the same manifest path.
C12_FirstMatchIsTheManifest ==
    obj = "live" =>
        /\ MatchingEntries # {}
        /\ \E k \in MatchingEntries :
              /\ \A j \in MatchingEntries : k <= j
              /\ manifest_path = Some(Get(list_of_package_files)[k])
              /\ xml = Some(DocOf(Get(list_of_package_files)[k]))

\* two entries match, and the later one holds another document
C12_Witness ==
    /\ obj = "live"
    /\ Cardinality(MatchingEntries) = 2
    /\ manifest_path = Some(SubMetsXml)
    /\ DocOf(MetsXml) = DecoyDoc
    /\ xml # Some(DecoyDoc)

\* C13: every finished run of one of the six checks has the outcome of the
\* first run of that check on the same object.
C13_SecondRunRepeatsTheFirst ==
    (ret.op \in DOMAIN first /\ ret.exc # "running")
        => first[ret.op] = Some(ret)

\* a launch that passed the guards on the folder, the pattern and the ticked
\* checks, and is over
BatchOver ==
    /\ app.phase \in {"ended", "error_shown"}
    /\ app.exc \notin {"UndefinedDirectory", "UndefinedMETSPattern", "UndefinedAction"}

\* C14: when a batch run is over, every package other than one that raised
\* has its verdicts in the report.
C14_OthersAreStillEvaluated ==
    BatchOver =>
        \A j \in 1..Len(app.fates) : j # app.failed => InList(j, app.rows)

\* C15: no archive handle opened by is_unaltered or listAlteredFiles is
\* still open once the call is over, however it ended.
C15_HandlesClosedOnExit ==
    pc = "idle" => open_handles = 0

\* C16: the listing of a directory package holds the path of every file of
\* the package tree, whatever the working directory contains.
C16_ListingIsThePackageTree ==
    (fs_kind = "directory" /\ hasattr(list_of_package_files))
        => \A k \in 1..Len(fs_files) :
              InList(fs_files[k].name, Get(list_of_package_files))

RECURSIVE UnalteredFrom(_, _)
UnalteredFrom(k, cs) ==
    IF k > Len(FLocats) THEN Returned("is_unaltered", TRUE, <<>>, <<>>)
    ELSE LET v == UnalteredVisit(FLocats[k], cs) IN
         IF v.kind \in {"IndexError", "UnboundLocalError"}
         THEN Raised("is_unaltered", v.kind)
         ELSE IF v.kind \in {"mismatch", "nochecksum"}
         THEN Returned("is_unaltered", FALSE, <<>>, <<>>)
         ELSE UnalteredFrom(k + 1, v.checksum)

\* what listAlteredFiles gives when it runs from element k on
RECURSIVE AlteredFrom(_, _, _, _)
AlteredFrom(k, cs, altered, unchecked) ==
    IF k > Len(FLocats) THEN Returned("listAlteredFiles", FALSE, altered, unchecked)
    ELSE LET v == AlteredVisit(FLocats[k], cs) IN
         IF v.kind \in {"IndexError", "UnboundLocalError"}
         THEN Raised("listAlteredFiles", v.kind)
         ELSE AlteredFrom(k + 1, v.checksum,
                          IF v.kind = "mismatch"
                          THEN Append(altered, Target(k)) ELSE altered,
                          IF v.kind = "nochecksum"
                          THEN Append(unchecked, Target(k)) ELSE unchecked)

\* the outcome of a check that runs before any other check on the object
RunFirst(op) ==
    LET r == listReferencedFiles
        files == Get(list_of_package_files) IN
    CASE op = "is_complete" ->
            IF r.exc # "" THEN Raised(op, r.exc)
            ELSE Returned(op, CompleteLoop(r.list, 1), <<>>, <<>>)
      [] op = "listMissingFiles" ->
            IF r.exc # "" THEN Raised(op, r.exc)
            ELSE Returned(op, FALSE, MissingLoop(r.list, 1, <<>>), <<>>)
      [] op = "has_no_orphan_files" ->
            IF r.exc # "" THEN Raised(op, r.exc)
            ELSE Returned(op, NoOrphanLoop(files, r.list, 1), <<>>, <<>>)
      [] op = "listOrphanFiles" ->
            IF r.exc # "" THEN Raised(op, r.exc)
            ELSE Returned(op, FALSE, OrphanLoop(files, r.list, 1, <<>>), <<>>)
      [] op = "is_unaltered" -> UnalteredFrom(1, None)
      [] op = "listAlteredFiles" -> AlteredFrom(1, None, <<>>, <<>>)

\* C18: the first run of a check on the object, whatever other checks ran
\* before it, has the outcome the check has when it runs before all others.
C18_OutcomeIsThatOfAFirstRun ==
    obj = "live" =>
        \A op \in DOMAIN first :
            hasattr(first[op]) => Get(first[op]) = RunFirst(op)

\* C19 as stated: no path is in both lists of one listAlteredFiles call.
C19_NoPathInBothLists ==
    (ret.op = "listAlteredFiles" /\ ret.exc = "")
        => \A n \in 1..Len(ret.l) : ~InList(ret.l[n], ret.l2)

\* C19: a file element is reported in at most one of the two lists, so the
\* lists together have at most one entry per element; a path is in both lists
\* only when two elements declare it, one with CHECKSUM and CHECKSUMTYPE and
\* one without either of them.
C19_OverlapOnlyForRepeatedPaths ==
    (ret.op = "listAlteredFiles" /\ ret.exc = "")
        => /\ Len(ret.l) + Len(ret.l2) <= Len(FLocats)
           /\ \A n \in 1..Len(ret.l) :
                 InList(ret.l[n], ret.l2)
                    => \E j, k \in 1..Len(FLocats) :
                          /\ j # k
                          /\ Target(j) = ret.l[n] /\ Target(k) = ret.l[n]
                          /\ HasBoth(j) /\ ~HasBoth(k)

\* the same path declared twice, once with a digest that differs and once
\* without checksum attributes, is in both lists
C19_Witness ==
    /\ ret.op = "listAlteredFiles" /\ ret.exc = ""
    /\ InList(ATxt, ret.l)
    /\ InList(ATxt, ret.l2)

\* the package has no manifest that can be located, read and parsed
NoUsableManifest ==
    Matching = {} \/ fs_files[FirstMatching].doc.wf # "ok"

C21_ChecksAgreeOnTheEntry ==
    (obj = "live" /\ hasattr(missing_files) /\ hasattr(list_of_orphan_files)
       /\ hasattr(list_of_referenced_files))
        => \A k \in 1..Len(Get(list_of_package_files)) :
           \A n \in 1..Len(Get(list_of_referenced_files)) :
              LET e == Get(list_of_package_files)[k]
                  r == Get(list_of_referenced_files)[n]
              IN e # Get(manifest_path)
                   => ((Relpath(e, SplitHead(Get(manifest_path))) = r)
                          <=> (Resolve(r) = e))

====
